---- MODULE Spec2Model ----
(***************************************************************************)
(* Model of matlab_wrapper.matlab_session.MatlabSession: the session       *)
(* lifecycle (__init__, __del__), eval with its error-capture template,    *)
(* and the get/put marshalling between numpy arrays and engine mxArrays.   *)
(* The engine is modelled at its API boundary: a workspace of named        *)
(* mxArray values, array handles that are acquired and destroyed, and a    *)
(* connection handle that is opened and closed.                            *)
(***************************************************************************)
EXTENDS Integers, Sequences, FiniteSets, TLC

VARIABLES
    phase,      \* "uninit", "connected", "failed", "closed" or "crashed"
    libeng,     \* TRUE once self._libeng is bound
    ep,         \* self._ep: "unset", 0 (NULL) or 1 (a live engine)
    outbuf,     \* self._output_buffer: -1 (unbound), 0 (None) or the capacity
    ws,         \* the engine workspace: variable name -> mxArray (MxNull = absent)
    live,       \* array handles the host holds and has not destroyed
    putCalls,   \* engPutVariable calls issued
    closeCalls, \* engClose calls issued
    nullEpCalls,\* engine calls issued on a NULL connection handle
    nops,       \* eval/get/put calls made on the session
    last        \* record of the most recent call and its outcome

vars == <<phase, libeng, ep, outbuf, ws, live, putCalls, closeCalls,
          nullEpCalls, nops, last>>

----------------------------------------------------------------------------
(* Bounds *)

\* calls made on one session
MaxOps == 3
\* array elements range over 0..MaxVal
MaxVal == 1
\* frames of an engine error's call stack
MaxFrames == 1

----------------------------------------------------------------------------
(* Shapes, indices and element order *)

RECURSIVE Prod(_)
Prod(s) == IF s = <<>> THEN 1 ELSE s[1] * Prod(Tail(s))

\* all index tuples of an array of the given shape (0-based)
RECURSIVE Indices(_)
Indices(shape) ==
    IF shape = <<>> THEN {<<>>}
    ELSE {<<i>> \o r : i \in 0..(shape[1] - 1), r \in Indices(Tail(shape))}

\* column-major (Fortran) linear offset of an index: the first index varies fastest
RECURSIVE RavelF(_, _)
RavelF(idx, shape) ==
    IF shape = <<>> THEN 0
    ELSE idx[1] + shape[1] * RavelF(Tail(idx), Tail(shape))

\* row-major (C) linear offset of an index: the last index varies fastest
RECURSIVE RavelC(_, _)
RavelC(idx, shape) ==
    IF shape = <<>> THEN 0
    ELSE idx[1] * Prod(Tail(shape)) + RavelC(Tail(idx), Tail(shape))

\* column-major index of a linear offset
RECURSIVE UnravelF(_, _)
UnravelF(k, shape) ==
    IF shape = <<>> THEN <<>>
    ELSE <<k % shape[1]>> \o UnravelF(k \div shape[1], Tail(shape))

\* ndarray.squeeze(): the shape without its unit-length dimensions
RECURSIVE SqueezeShape(_)
SqueezeShape(shape) ==
    IF shape = <<>> THEN <<>>
    ELSE IF shape[1] = 1 THEN SqueezeShape(Tail(shape))
    ELSE <<shape[1]>> \o SqueezeShape(Tail(shape))

\* the index in the unsqueezed array that a squeezed index addresses
RECURSIVE Unsqueeze(_, _)
Unsqueeze(idx, shape) ==
    IF shape = <<>> THEN <<>>
    ELSE IF shape[1] = 1 THEN <<0>> \o Unsqueeze(idx, Tail(shape))
    ELSE <<idx[1]>> \o Unsqueeze(Tail(idx), Tail(shape))

\* np.array(value, ndmin=2): ones are prepended until there are two dimensions
RECURSIVE AtLeast2D(_)
AtLeast2D(shape) == IF Len(shape) >= 2 THEN shape ELSE AtLeast2D(<<1>> \o shape)

\* the index of the original array that an index of the ndmin=2 array addresses
Drop2D(idx, shape) == SubSeq(idx, Len(idx) - Len(shape) + 1, Len(idx))

\* mxCreateNumericArray removes trailing singleton dimensions beyond the second
RECURSIVE MxDims(_)
MxDims(dims) ==
    IF Len(dims) > 2 /\ dims[Len(dims)] = 1
    THEN MxDims(SubSeq(dims, 1, Len(dims) - 1))
    ELSE dims

----------------------------------------------------------------------------
(* Host values (what the caller passes to put and receives from get) *)

EmptyMap == [i \in {} |-> 0]

\* a Python str
PyStr(t) ==
    [kind |-> "str", dtype |-> "", shape |-> <<>>, re |-> EmptyMap,
     im |-> EmptyMap, text |-> t]

\* a Python dict
PyDict ==
    [kind |-> "dict", dtype |-> "", shape |-> <<>>, re |-> EmptyMap,
     im |-> EmptyMap, text |-> <<>>]

\* no value (a call that returns None or does not return)
NoValue ==
    [kind |-> "none", dtype |-> "", shape |-> <<>>, re |-> EmptyMap,
     im |-> EmptyMap, text |-> <<>>]

\* an array(-like): element maps from index tuples to real and imaginary parts
NdArray(d, shape, re, im) ==
    [kind |-> "array", dtype |-> d, shape |-> shape, re |-> re, im |-> im,
     text |-> <<>>]

\* numpy dtype.kind
DtypeKind(d) ==
    CASE d \in {"int8", "int16", "int32", "int64"} -> "i"
      [] d \in {"uint8", "uint16", "uint32", "uint64"} -> "u"
      [] d \in {"float16", "float32", "float64"} -> "f"
      [] d \in {"complex64", "complex128"} -> "c"
      [] d = "bool" -> "b"
      [] d = "unicode" -> "U"
      [] OTHER -> "O"

\* the element kinds put accepts
SupportedKinds == {"i", "u", "f", "c", "b"}

----------------------------------------------------------------------------
(* Engine arrays (mxArray) *)

\* a NULL mxArray pointer; also an absent workspace variable
MxNull ==
    [cls |-> "NULL", dims |-> <<>>, re |-> <<>>, im |-> <<>>,
     cplx |-> FALSE, text |-> <<>>]

\* a char array holding a text
MxChar(t) ==
    [cls |-> "mxCHAR_CLASS",
     dims |-> IF t = <<>> THEN <<0, 0>> ELSE <<1, Len(t)>>,
     re |-> <<>>, im |-> <<>>, cplx |-> FALSE, text |-> t]

\* a cell array (a class get does not decode)
MxCell ==
    [cls |-> "mxCELL_CLASS", dims |-> <<1, 1>>, re |-> <<>>, im |-> <<>>,
     cplx |-> FALSE, text |-> <<>>]

\* a 1x1 double
MxScalar(v) ==
    [cls |-> "mxDOUBLE_CLASS", dims |-> <<1, 1>>, re |-> <<v>>, im |-> <<0>>,
     cplx |-> FALSE, text |-> <<>>]

\* engine class of a numpy dtype; "UnsupportedType" where there is none
np_to_mat(d) ==
    CASE d = "int8" -> "mxINT8_CLASS"
      [] d = "uint8" -> "mxUINT8_CLASS"
      [] d = "int16" -> "mxINT16_CLASS"
      [] d = "uint16" -> "mxUINT16_CLASS"
      [] d = "int32" -> "mxINT32_CLASS"
      [] d = "uint32" -> "mxUINT32_CLASS"
      [] d = "int64" -> "mxINT64_CLASS"
      [] d = "uint64" -> "mxUINT64_CLASS"
      [] d \in {"float32", "complex64"} -> "mxSINGLE_CLASS"
      [] d \in {"float64", "complex128"} -> "mxDOUBLE_CLASS"
      [] d = "bool" -> "mxLOGICAL_CLASS"
      [] OTHER -> "UnsupportedType"

\* mxGetClassName
ClassName(cls) ==
    CASE cls = "mxINT8_CLASS" -> "int8"
      [] cls = "mxUINT8_CLASS" -> "uint8"
      [] cls = "mxINT16_CLASS" -> "int16"
      [] cls = "mxUINT16_CLASS" -> "uint16"
      [] cls = "mxINT32_CLASS" -> "int32"
      [] cls = "mxUINT32_CLASS" -> "uint32"
      [] cls = "mxINT64_CLASS" -> "int64"
      [] cls = "mxUINT64_CLASS" -> "uint64"
      [] cls = "mxSINGLE_CLASS" -> "single"
      [] cls = "mxDOUBLE_CLASS" -> "double"
      [] cls = "mxLOGICAL_CLASS" -> "logical"
      [] cls = "mxCHAR_CLASS" -> "char"
      [] cls = "mxCELL_CLASS" -> "cell"
      [] OTHER -> "unknown"

\* mxIsNumeric: the integer and floating classes, not logical or char
IsNumeric(cls) ==
    cls \in {"mxINT8_CLASS", "mxUINT8_CLASS", "mxINT16_CLASS", "mxUINT16_CLASS",
             "mxINT32_CLASS", "mxUINT32_CLASS", "mxINT64_CLASS", "mxUINT64_CLASS",
             "mxSINGLE_CLASS", "mxDOUBLE_CLASS"}

\* np.dtype(class_name) for the names numpy knows
NpDtype(name) ==
    CASE name = "double" -> "float64"
      [] name = "single" -> "float32"
      [] OTHER -> name

\* dtype of pyarray + pyarray_imag * 1j
ComplexDtype(d) == IF d = "float32" THEN "complex64" ELSE "complex128"

----------------------------------------------------------------------------
(* put: encoding a host value into an engine array *)

\* value = np.array(value, ndmin=2)
NpArray2(v) ==
    LET s2 == AtLeast2D(v.shape) IN
    NdArray(v.dtype, s2,
            [idx \in Indices(s2) |-> v.re[Drop2D(idx, v.shape)]],
            [idx \in Indices(s2) |-> v.im[Drop2D(idx, v.shape)]])

\* ndarray.tostring('F'): the elements in column-major order
ToStringF(map, shape) ==
    [k \in 1..Prod(shape) |-> map[UnravelF(k - 1, shape)]]

\* mxCreateString
mxCreateString(t) == MxChar(t)

\* mxCreateNumericArray followed by the memmove of the real (and imaginary) part
EncodeArray(a) ==
    LET complex_flag == DtypeKind(a.dtype) = "c" IN
    [cls |-> np_to_mat(a.dtype),
     dims |-> MxDims(a.shape),
     re |-> ToStringF(a.re, a.shape),
     im |-> IF complex_flag THEN ToStringF(a.im, a.shape) ELSE <<>>,
     cplx |-> complex_flag,
     text |-> <<>>]

Raised(exc, msg) ==
    [outcome |-> "raise", exc |-> exc, msg |-> msg, pm |-> MxNull, created |-> 0]

\* the part of put before engPutVariable: the handle it creates, or the
\* exception it raises
PutEncode(value) ==
    IF value.kind = "str"
    THEN [outcome |-> "ok", exc |-> "", msg |-> <<>>,
          pm |-> mxCreateString(value.text), created |-> 1]
    ELSE IF value.kind = "dict"
    THEN Raised("NotImplementedError", <<"dicts are not supported.">>)
    ELSE LET a == NpArray2(value) IN
         IF DtypeKind(a.dtype) \in SupportedKinds
         THEN IF np_to_mat(a.dtype) = "UnsupportedType"
              THEN Raised("UnsupportedType", <<a.dtype>>)
              ELSE [outcome |-> "ok", exc |-> "", msg |-> <<>>,
                    pm |-> EncodeArray(a), created |-> 1]
         ELSE Raised("NotImplementedError",
                     <<"Type ", a.dtype, " not supported.">>)

----------------------------------------------------------------------------
(* get: decoding an engine array into a host value *)

\* the buffer read with order='C'
FromBufferC(flat, dims) ==
    [idx \in Indices(dims) |-> flat[RavelC(idx, dims) + 1]]

\* np.ndarray(buffer=..., shape=dims[:ndims], order='F')
FromBufferF(flat, dims) ==
    [idx \in Indices(dims) |-> flat[RavelF(idx, dims) + 1]]

\* ndarray.squeeze() on the elements
Squeeze(map, dims) ==
    [idx \in Indices(SqueezeShape(dims)) |-> map[Unsqueeze(idx, dims)]]

ZeroMap(dims) == [idx \in Indices(SqueezeShape(dims)) |-> 0]

\* mxGetString(pm, buf, buflen): at most buflen - 1 characters
mxGetString(pm, buflen) ==
    LET n == IF Len(pm.text) < buflen - 1 THEN Len(pm.text) ELSE buflen - 1 IN
    SubSeq(pm.text, 1, n)

\* a logical array decoded with the dtype of its one-byte elements
LogicalAsUint8 == "uint8"

\* dtype='bool' of the logical path
LogicalDtype == "bool"

Returned(v, destroyed) ==
    [outcome |-> "ok", exc |-> "", msg |-> <<>>, value |-> v,
     destroyed |-> destroyed]

\* the part of get after the accessors, for a non-NULL handle: the value
\* returned or the exception raised, and the mxDestroyArray calls made
Decode(pm) ==
    LET numelems == Prod(pm.dims)
        class_name == ClassName(pm.cls)
    IN
    IF IsNumeric(pm.cls)
    THEN LET re == Squeeze(FromBufferF(pm.re, pm.dims), pm.dims) IN
         IF pm.cplx
         THEN Returned(NdArray(ComplexDtype(NpDtype(class_name)),
                               SqueezeShape(pm.dims), re,
                               Squeeze(FromBufferF(pm.im, pm.dims), pm.dims)), 1)
         ELSE Returned(NdArray(NpDtype(class_name), SqueezeShape(pm.dims), re,
                               ZeroMap(pm.dims)), 1)
    ELSE IF class_name = "char"
    THEN Returned(PyStr(mxGetString(pm, numelems + 1)), 1)
    ELSE IF class_name = "logical"
    THEN Returned(NdArray(LogicalDtype, SqueezeShape(pm.dims),
                          Squeeze(FromBufferF(pm.re, pm.dims), pm.dims),
                          ZeroMap(pm.dims)), 1)
    ELSE [outcome |-> "raise", exc |-> "NotImplementedError",
          msg |-> <<class_name, "-arrays are not implemented">>,
          value |-> NoValue, destroyed |-> 0]

----------------------------------------------------------------------------
(* eval: the error-capture template and the check of ERRORSTR *)

\* the variables of the engine workspace the model follows: a user variable,
\* and the three the template writes
VarNames == {"a", "err", "i", "ERRORSTR"}

EmptyWorkspace == [n \in VarNames |-> MxNull]

\* a piece of text formatted by sprintf with %s; the empty string adds nothing
Tok(s) == IF s = "" THEN <<>> ELSE <<s>>

\* ERRORSTR after the for loop over the first n frames of err.stack
RECURSIVE StackText(_, _, _)
StackText(str, stack, n) ==
    IF n = 0 THEN str
    ELSE StackText(str, stack, n - 1) \o
         <<"Error: in fuction ", stack[n].name, " in file ", stack[n].file,
           " line ", stack[n].line, "\n">>

\* a catch block that records the message without the identifier
CatchTextNoId(err) ==
    StackText(Tok(err.message) \o <<"\n">>, err.stack, Len(err.stack))

\* the catch block: sprintf('%s: %s\n', err.identifier, err.message), then
\* one line per stack frame
CatchText(err) ==
    StackText(Tok(err.identifier) \o <<": ">> \o Tok(err.message) \o <<"\n">>,
              err.stack, Len(err.stack))

\* an MException object, as the variable err holds it
MxException ==
    [cls |-> "mxOBJECT_CLASS", dims |-> <<1, 1>>, re |-> <<>>, im |-> <<>>,
     cplx |-> FALSE, text |-> <<>>]

\* the loop variable after for i = 1:n
LoopVar(n) ==
    IF n = 0
    THEN [cls |-> "mxDOUBLE_CLASS", dims |-> <<1, 0>>, re |-> <<>>, im |-> <<>>,
          cplx |-> FALSE, text |-> <<>>]
    ELSE MxScalar(n)

\* a template that does not reset ERRORSTR
ResetErrSkipped(w) == w

\* ERRORSTR = '';
ResetErr(w) == [w EXCEPT !["ERRORSTR"] = MxChar(<<>>)]

\* try {0} catch err ... end
TryCatch(w, expr) ==
    CASE expr.k = "assign" -> [w EXCEPT ![expr.name] = expr.val]
      [] expr.k = "clear" -> EmptyWorkspace
      [] expr.k = "error" ->
            [w EXCEPT !["err"] = MxException,
                      !["ERRORSTR"] = MxChar(CatchText(expr.err)),
                      !["i"] = LoopVar(Len(expr.err.stack))]

\* if exist('ERRORSTR','var') == 0, ERRORSTR=''; end
EnsureExists(w) == IF w["ERRORSTR"] = MxNull THEN ResetErr(w) ELSE w

\* the workspace after the engine ran wrap_script.format(expression)
WrapScript(w, expr) == EnsureExists(TryCatch(ResetErr(w), expr))

\* mxArrayToString as ctypes returns it: the text of a char array, None otherwise
mxArrayToString(mx) ==
    IF mx.cls = "mxCHAR_CLASS" THEN [none |-> FALSE, s |-> mx.text]
    ELSE [none |-> TRUE, s |-> <<>>]

\* error_string != ""
NotEmptyStr(e) == e.none \/ e.s # <<>>

\* "Error from MATLAB\n{0}".format(error_string)
ErrorMessage(e) ==
    <<"Error from MATLAB\n">> \o (IF e.none THEN <<"None">> ELSE e.s)

----------------------------------------------------------------------------
(* Inputs *)

Frame == [name |-> "f", file |-> "/m/f.m", line |-> "3"]

\* errors an expression can raise: with and without an identifier, with
\* call stacks of up to MaxFrames frames
EngineErrors ==
    {[identifier |-> id, message |-> "Undefined function 'foo'.",
      stack |-> [k \in 1..n |-> Frame]] :
        id \in {"MATLAB:UndefinedFunction", ""}, n \in 0..MaxFrames}

NoError == [identifier |-> "", message |-> "", stack |-> <<>>]

\* values an expression can assign
EngineValues == {MxScalar(7), MxChar(<<"oops">>), MxChar(<<>>), MxCell}

\* expressions: an assignment, clear, or a statement that raises
Exprs ==
    {[k |-> "assign", name |-> n, val |-> v, err |-> NoError] :
        n \in {"a", "ERRORSTR"}, v \in EngineValues}
    \cup {[k |-> "clear", name |-> "", val |-> MxNull, err |-> NoError]}
    \cup {[k |-> "error", name |-> "", val |-> MxNull, err |-> e] :
            e \in EngineErrors}

NoExpr == [k |-> "none", name |-> "", val |-> MxNull, err |-> NoError]

Scalar(d, re, im) == NdArray(d, <<>>, <<>> :> re, <<>> :> im)

Vector2(d, x, y) ==
    NdArray(d, <<2>>, (<<0>> :> x) @@ (<<1>> :> y), (<<0>> :> 0) @@ (<<1>> :> 0))

\* values passed to put in the session specification
PutValues ==
    {PyStr(<<"h", "i">>), PyDict,
     Scalar("object", 0, 0), Scalar("unicode", 0, 0), Scalar("float16", 1, 0),
     Scalar("float64", 1, 0), Scalar("complex128", 1, 1),
     Vector2("int32", 1, 0), Vector2("bool", 1, 0)}

\* the array 1, 2, 3, ... laid out like np.arange(1, n + 1).reshape(shape)
Ramp(shape) == [idx \in Indices(shape) |-> RavelC(idx, shape) + 1]

Zeros(shape) == [idx \in Indices(shape) |-> 0]

\* shapes of one, two and three dimensions, with and without unit dimensions
RTShapes ==
    {<<1>>, <<3>>, <<1, 1>>, <<1, 3>>, <<3, 1>>, <<2, 3>>,
     <<2, 1, 2>>, <<1, 2, 2>>, <<2, 3, 1>>, <<2, 2, 2>>, <<3, 2, 2>>}

RealDtypes ==
    {"int8", "int16", "int32", "int64", "uint8", "uint16", "uint32", "uint64",
     "float32", "float64"}

\* the arrays that are zero but for one element
OneHot(sh) ==
    {[idx \in Indices(sh) |-> IF idx = j THEN 1 ELSE 0] : j \in Indices(sh)}

\* element maps for the round trip: the map of distinct elements and, for
\* shapes of up to six elements, every map into 0..MaxVal; for larger shapes
\* the maps with a single non-zero element
RTElements(sh) ==
    {Ramp(sh)} \cup
    (IF Prod(sh) <= 6 THEN [Indices(sh) -> 0..MaxVal] ELSE OneHot(sh))

\* boolean element maps
RTBoolElements(sh) ==
    IF Prod(sh) <= 6 THEN [Indices(sh) -> {0, 1}] ELSE OneHot(sh)

----------------------------------------------------------------------------
(* The session *)

\* the connection handle values: ctypes returns engOpen's int result
EpNull == "0"
EpLive == "handle"

\* x is None
IsNone(x) == x = "None"

NoCall ==
    [op |-> "none", name |-> "", arg |-> NoValue, expr |-> NoExpr,
     outcome |-> "none", exc |-> "", msg |-> <<>>, value |-> NoValue,
     acquired |-> 0, destroyed |-> 0, nullAccess |-> FALSE,
     evaluated |-> FALSE, errBefore |-> MxNull]

Init ==
    /\ phase = "uninit"
    /\ libeng = FALSE
    /\ ep = "unset"
    /\ outbuf = -1
    /\ ws = EmptyWorkspace
    /\ live = 0
    /\ putCalls = 0
    /\ closeCalls = 0
    /\ nullEpCalls = 0
    /\ nops = 0
    /\ last = NoCall

InitFailed(exc, msg) ==
    /\ phase' = "failed"
    /\ last' = [NoCall EXCEPT !.op = "init", !.outcome = "raise",
                              !.exc = exc, !.msg = msg]
    /\ UNCHANGED <<ep, outbuf, ws, live, putCalls, closeCalls, nullEpCalls, nops>>

\* __init__: root is whether a MATLAB root is given or found on PATH, load is
\* how loading the two libraries goes, handle is what engOpen returns
Construct(root, system, load, handle, buffer_size) ==
    /\ phase = "uninit"
    /\ IF ~root
       THEN /\ InitFailed("RuntimeError",
                          <<"MATLAB location is unknown (set matlab_root)">>)
            /\ UNCHANGED libeng
       ELSE IF system \in {"Linux", "Darwin"}
       THEN IF load # "ok"
            THEN /\ InitFailed("OSError", <<>>)
                 /\ libeng' = (load = "mxFail")
            ELSE LET command == <<"matlab_root/bin/matlab", " ", "-nosplash">> IN
                 /\ libeng' = TRUE
                 /\ ep' = handle
                 /\ ws' = EmptyWorkspace
                 /\ UNCHANGED <<live, putCalls, closeCalls, nops>>
                 /\ IF IsNone(handle)
                    THEN /\ phase' = "failed"
                         /\ last' = [NoCall EXCEPT
                                !.op = "init", !.outcome = "raise",
                                !.exc = "RuntimeError",
                                !.msg = <<"Could not start matlab using command:\n\t">>
                                        \o command]
                         /\ UNCHANGED <<outbuf, nullEpCalls>>
                    ELSE /\ phase' = "connected"
                         /\ last' = [NoCall EXCEPT !.op = "init", !.outcome = "ok"]
                         /\ IF buffer_size # 0
                            THEN /\ outbuf' = buffer_size
                                 /\ nullEpCalls' = nullEpCalls +
                                        (IF handle = EpNull THEN 1 ELSE 0)
                            ELSE /\ outbuf' = 0
                                 /\ UNCHANGED nullEpCalls
       ELSE /\ InitFailed("NotImplementedError",
                          <<"System ", system, " not supported">>)
            /\ UNCHANGED libeng

\* __del__: self._libeng.engClose(self._ep); an attribute that was never
\* bound raises AttributeError before the call is made
Del ==
    /\ phase \in {"connected", "failed"}
    /\ phase' = "closed"
    /\ IF libeng /\ ep # "unset"
       THEN /\ closeCalls' = closeCalls + 1
            /\ nullEpCalls' = nullEpCalls + (IF ep = EpNull THEN 1 ELSE 0)
       ELSE UNCHANGED <<closeCalls, nullEpCalls>>
    /\ UNCHANGED <<libeng, ep, outbuf, ws, live, putCalls, nops, last>>


\* a put that goes on to engPutVariable after a rejected value
ReachesEnginePutAlways(r) == TRUE

\* whether put goes on to engPutVariable: only when nothing was raised
ReachesEnginePut(r) == r.outcome = "ok"

\* put(name, value)
Put(name, value) ==
    /\ phase = "connected"
    /\ nops < MaxOps
    /\ nops' = nops + 1
    /\ LET r == PutEncode(value) IN
       /\ IF ReachesEnginePut(r)
          THEN /\ putCalls' = putCalls + 1
               /\ IF ep = EpLive
                  THEN /\ ws' = [ws EXCEPT ![name] = r.pm]
                       /\ UNCHANGED nullEpCalls
                  ELSE /\ nullEpCalls' = nullEpCalls + 1
                       /\ UNCHANGED ws
          ELSE UNCHANGED <<putCalls, ws, nullEpCalls>>
       /\ last' = [NoCall EXCEPT
                !.op = "put", !.name = name, !.arg = value,
                !.outcome = r.outcome, !.exc = r.exc, !.msg = r.msg,
                !.acquired = r.created,
                !.destroyed = IF r.outcome = "ok" THEN 1 ELSE 0,
                !.errBefore = ws["ERRORSTR"]]
       /\ live' = live + r.created - (IF r.outcome = "ok" THEN 1 ELSE 0)
    /\ UNCHANGED <<phase, libeng, ep, outbuf, closeCalls>>

\* what get may return when the accessors were given a NULL pointer
Garbage == Scalar("float64", 0, 0)

\* get(name)
Get(name) ==
    /\ phase = "connected"
    /\ nops < MaxOps
    /\ nops' = nops + 1
    /\ nullEpCalls' = nullEpCalls + (IF ep = EpNull THEN 1 ELSE 0)
    /\ LET pm == IF ep = EpLive THEN ws[name] ELSE MxNull
           call == [NoCall EXCEPT !.op = "get", !.name = name,
                                  !.errBefore = ws["ERRORSTR"]]
       IN
       IF pm = MxNull
       THEN \* the accessors dereference NULL: undefined behaviour
            /\ live' = live
            /\ \E ub \in {"crash", "raise", "return"} :
                 /\ phase' = IF ub = "crash" THEN "crashed" ELSE phase
                 /\ last' = [call EXCEPT
                        !.nullAccess = TRUE,
                        !.outcome = IF ub = "return" THEN "ok" ELSE ub,
                        !.exc = IF ub = "raise" THEN "NotImplementedError" ELSE "",
                        !.value = IF ub = "return" THEN Garbage ELSE NoValue]
       ELSE LET d == Decode(pm) IN
            /\ live' = live + 1 - d.destroyed
            /\ phase' = phase
            /\ last' = [call EXCEPT
                    !.outcome = d.outcome, !.exc = d.exc, !.msg = d.msg,
                    !.value = d.value, !.acquired = 1,
                    !.destroyed = d.destroyed]
    /\ UNCHANGED <<libeng, ep, outbuf, ws, putCalls, closeCalls>>

\* eval(expression)
Eval(expr) ==
    /\ phase = "connected"
    /\ nops < MaxOps
    /\ nops' = nops + 1
    /\ nullEpCalls' = nullEpCalls + (IF ep = EpNull THEN 2 ELSE 0)
    /\ LET evaluated == ep = EpLive
           w1 == IF evaluated THEN WrapScript(ws, expr) ELSE ws
           mxresult == IF evaluated THEN w1["ERRORSTR"] ELSE MxNull
           error_string == mxArrayToString(mxresult)
           call == [NoCall EXCEPT !.op = "eval", !.expr = expr,
                                  !.evaluated = evaluated,
                                  !.errBefore = ws["ERRORSTR"],
                                  !.acquired = IF mxresult = MxNull THEN 0 ELSE 1]
       IN
       /\ ws' = w1
       /\ live' = live + call.acquired
       /\ IF mxresult = MxNull
          THEN \* mxArrayToString(NULL): undefined behaviour
               \E ub \in {"crash", "none"} :
                 /\ phase' = IF ub = "crash" THEN "crashed" ELSE phase
                 /\ last' = IF ub = "crash"
                            THEN [call EXCEPT !.nullAccess = TRUE,
                                              !.outcome = "crash"]
                            ELSE [call EXCEPT !.nullAccess = TRUE,
                                              !.outcome = "raise",
                                              !.exc = "RuntimeError",
                                              !.msg = ErrorMessage(error_string)]
          ELSE /\ phase' = phase
               /\ last' = IF NotEmptyStr(error_string)
                          THEN [call EXCEPT !.outcome = "raise",
                                            !.exc = "RuntimeError",
                                            !.msg = ErrorMessage(error_string)]
                          ELSE [call EXCEPT !.outcome = "ok"]
    /\ UNCHANGED <<libeng, ep, outbuf, putCalls, closeCalls>>

Systems == {"Linux", "Darwin", "Windows"}

DoConstruct ==
    \E root \in BOOLEAN, system \in Systems, load \in {"ok", "engFail", "mxFail"},
       handle \in {EpNull, EpLive}, buffer_size \in {0, 16} :
        Construct(root, system, load, handle, buffer_size)

DoEval == \E expr \in Exprs : Eval(expr)

DoGet == \E name \in VarNames : Get(name)

DoPut == \E name \in {"a", "ERRORSTR"}, value \in PutValues : Put(name, value)

Next == DoConstruct \/ DoEval \/ DoGet \/ DoPut \/ Del

Spec == Init /\ [][Next]_vars

----------------------------------------------------------------------------
(* The marshalling round trip, from a session connected to a live engine *)

\* the state after MatlabSession() connected to an engine, no output buffer
InitRT ==
    /\ phase = "connected"
    /\ libeng = TRUE
    /\ ep = EpLive
    /\ outbuf = 0
    /\ ws = EmptyWorkspace
    /\ live = 0
    /\ putCalls = 0
    /\ closeCalls = 0
    /\ nullEpCalls = 0
    /\ nops = 0
    /\ last = [NoCall EXCEPT !.op = "init", !.outcome = "ok"]

\* the first call puts one array into the fresh workspace: an array of a real
\* dtype, a boolean array or a complex array
PutRT ==
    /\ nops = 0
    /\ \E sh \in RTShapes :
        \/ \E d \in RealDtypes, re \in RTElements(sh) :
                Put("a", NdArray(d, sh, re, Zeros(sh)))
        \/ \E re \in RTBoolElements(sh) :
                Put("a", NdArray("bool", sh, re, Zeros(sh)))
        \/ \E d \in {"complex64", "complex128"}, re \in {Ramp(sh), Zeros(sh)},
              im \in RTElements(sh) :
                Put("a", NdArray(d, sh, re, im))

GetRT == Get("a")

NextRT == PutRT \/ GetRT

SpecRT == InitRT /\ [][NextRT]_vars


----------------------------------------------------------------------------
(* Properties *)

Contains(msg, piece) == piece = "" \/ \E k \in 1..Len(msg) : msg[k] = piece

EmptyText == MxChar(<<>>)

\* the expression itself leaves a non-empty ERRORSTR behind without raising
SetsErrorText(expr) ==
    expr.k = "assign" /\ expr.name = "ERRORSTR" /\ expr.val # EmptyText

\* the index an element keeps once the unit-length dimensions are removed
RECURSIVE SqueezeIndex(_, _)
SqueezeIndex(idx, shape) ==
    IF shape = <<>> THEN <<>>
    ELSE IF shape[1] = 1 THEN SqueezeIndex(Tail(idx), Tail(shape))
    ELSE <<idx[1]>> \o SqueezeIndex(Tail(idx), Tail(shape))

\* r is x with its unit-length dimensions removed, element for element
RoundTrips(x, r) ==
    /\ r.kind = "array"
    /\ r.dtype = x.dtype
    /\ r.shape = SqueezeShape(x.shape)
    /\ DOMAIN r.re = Indices(r.shape)
    /\ \A idx \in Indices(x.shape) :
            r.re[SqueezeIndex(idx, x.shape)] = x.re[idx]

\* C1: after any get or put, however it ends, the handles acquired during the
\* call equal the handles destroyed during the call.
C1_HandlesBalanced ==
    last.op \in {"get", "put"} => last.acquired = last.destroyed

\* C2 as stated: an eval whose expression the engine ran fails exactly when
\* the expression raised, and then carries the identifier and the message.
C2_FailsIffRaised ==
    (last.op = "eval" /\ last.evaluated) =>
        /\ (last.outcome = "raise") <=> (last.expr.k = "error")
        /\ last.expr.k = "error" =>
                /\ Contains(last.msg, last.expr.err.identifier)
                /\ Contains(last.msg, last.expr.err.message)

\* C2 amended: an eval whose expression the engine ran fails exactly when
\* ERRORSTR is not the empty text afterwards; an expression that raises fails
\* with a message carrying the identifier and the message; an expression that
\* neither raises nor leaves ERRORSTR non-empty returns normally, no value.
C2_FailsIffErrorText ==
    (last.op = "eval" /\ last.evaluated) =>
        /\ (last.outcome = "raise") <=> (ws["ERRORSTR"] # EmptyText)
        /\ last.outcome = "raise" =>
                /\ last.exc = "RuntimeError"
                /\ ws["ERRORSTR"].cls = "mxCHAR_CLASS" =>
                        \A k \in 1..Len(ws["ERRORSTR"].text) :
                            Contains(last.msg, ws["ERRORSTR"].text[k])
        /\ last.expr.k = "error" =>
                /\ last.outcome = "raise"
                /\ Contains(last.msg, last.expr.err.identifier)
                /\ Contains(last.msg, last.expr.err.message)
        /\ (last.expr.k # "error" /\ ~SetsErrorText(last.expr)) =>
                (last.outcome = "ok" /\ last.value = NoValue)

\* C2 witness: an expression with an error identifier raised in a live engine
\* and eval failed.
C2_Witness ==
    /\ last.op = "eval" /\ last.evaluated
    /\ last.expr.k = "error"
    /\ last.expr.err.identifier = "MATLAB:UndefinedFunction"
    /\ Len(last.expr.err.stack) > 0
    /\ last.outcome = "raise"

\* C3: get on a name that is not in the workspace raises, returns no value,
\* and calls no accessor on the NULL handle.
C3_MissingVariableChecked ==
    (last.op = "get" /\ ep = EpLive /\ ws[last.name] = MxNull) =>
        (last.outcome = "raise" /\ ~last.nullAccess /\ last.value = NoValue)

\* C4: a put of a dict, or of an array whose kind is none of i, u, f, c, b,
\* raises the unsupported-type error, issues no engPutVariable and leaves the
\* workspace as it was.
C4_UnsupportedPutRejected ==
    [][(/\ nops' = nops + 1
        /\ last'.op = "put"
        /\ \/ last'.arg.kind = "dict"
           \/ /\ last'.arg.kind = "array"
              /\ DtypeKind(last'.arg.dtype) \notin {"i", "u", "f", "c", "b"})
       => (/\ last'.outcome = "raise"
           /\ last'.exc = "NotImplementedError"
           /\ putCalls' = putCalls
           /\ ws' = ws)]_vars

\* C4 witness: a dict was put under a name that holds a value, and the value
\* is still there.
C4_Witness ==
    /\ last.op = "put" /\ last.name = "a" /\ last.arg = PyDict
    /\ last.outcome = "raise"
    /\ ep = EpLive
    /\ ws["a"] # MxNull

\* C5: a NULL handle from engOpen makes construction fail, so a constructed
\* session never holds a NULL handle and no engine call is made on one.
C5_NoNullConnection ==
    /\ phase = "connected" => ep # EpNull
    /\ nullEpCalls = 0

\* C6: a closed session that obtained a live connection closed it exactly
\* once; a closed session without one issued no close call.
C6_ClosedExactlyOnce ==
    /\ closeCalls <= 1
    /\ phase = "closed" => closeCalls = (IF ep = EpLive THEN 1 ELSE 0)

\* C7: put of an array of a supported numeric dtype followed by get of the
\* same name returns the same dtype, the shape without its unit dimensions,
\* and every element at its original index.
C7_NumericRoundTrip ==
    [][(/\ last.op = "put" /\ last.outcome = "ok"
        /\ last.arg.kind = "array" /\ last.arg.dtype \in RealDtypes
        /\ last'.op = "get" /\ last'.name = last.name)
       => (last'.outcome = "ok" /\ RoundTrips(last.arg, last'.value))]_vars

\* C7 witness: the 2x3 array 1..6 came back from get as a 2x3 array.
C7_Witness ==
    /\ last.op = "get" /\ last.outcome = "ok"
    /\ last.value.dtype = "int16"
    /\ last.value.shape = <<2, 3>>
    /\ last.value.re = Ramp(<<2, 3>>)

C9_UsableAfterError ==
    (/\ last.op = "eval" /\ last.evaluated
     /\ last.errBefore \notin {MxNull, EmptyText}
     /\ last.expr.k # "error")
    => last.outcome = "ok"

\* C9 amended: with error text left behind in the workspace, the outcome of
\* an eval is decided by its expression alone: it fails exactly when the
\* expression raises or itself leaves ERRORSTR non-empty.
C9_OutcomeIgnoresOldErrorText ==
    (/\ last.op = "eval" /\ last.evaluated
     /\ last.errBefore \notin {MxNull, EmptyText})
    => /\ last.outcome \in {"ok", "raise"}
       /\ (last.outcome = "raise") <=>
                (last.expr.k = "error" \/ SetsErrorText(last.expr))

\* C9 witness: an eval that found error text from before and returned
\* normally.
C9_Witness ==
    /\ last.op = "eval" /\ last.evaluated
    /\ last.errBefore.cls = "mxCHAR_CLASS" /\ last.errBefore.text # <<>>
    /\ last.expr.k = "assign" /\ last.expr.name = "a"
    /\ last.outcome = "ok"

\* C10: every eval destroys the handle it obtained for ERRORSTR, and no eval
\* adds to the handles the host holds.
C10_EvalHandleDestroyed ==
    [][(nops' = nops + 1 /\ last'.op = "eval")
       => (last'.acquired = last'.destroyed /\ live' <= live)]_vars

====
